---- MODULE Spec2Model ----
(***************************************************************************)
(* Referral rewards processor (src/referral-rewards-processor.js) with its *)
(* ledger table (src/unnamed/part_000, the referral_rewards schema).       *)
(*                                                                         *)
(* A run of processReferralRewards is an async function; it is modelled    *)
(* as a process whose steps are the points where it awaits an external     *)
(* system: the upstream API (customers page fetches, report initiation,    *)
(* report status polls, reward purchase) and the ledger store (select,     *)
(* insert, update).  Two runs may overlap; the ledger and the upstream     *)
(* grants are the state they share.                                        *)
(***************************************************************************)
EXTENDS Integers, Sequences, FiniteSets, TLC

\* ------------------------------------------------------------------ bounds
\* Longest report (number of items of a completed report).
MaxReportLen == 2
\* Most pages of candidates the upstream holds.
MaxPages == 2
\* CONFIG.POLL_MAX_ATTEMPTS; the source sets 100, the model scales the budget
\* down (the polling loop is uniform in it).
POLL_MAX_ATTEMPTS == 3
\* CONFIG.MAX_RETRIES
MAX_RETRIES == 3
\* Saturation of the per-pair count of granted rewards.
MaxGrants == 2
\* CONFIG.INITIAL_RETRY_DELAY and CONFIG.MAX_RETRY_DELAY (milliseconds)
INITIAL_RETRY_DELAY == 1000
MAX_RETRY_DELAY == 10000
\* Attempt numbers the delay formula is evaluated at (beyond MAX_RETRIES, to
\* reach the cap).
MaxDelayAttempt == 6
\* Most pages the customers endpoint serves to one followed call.
MaxServed == 3

\* The scheduled runs (scheduler.js fires the callback without waiting for the
\* previous run, so two runs may be in flight together).
Runs == {1, 2}

GivingMemberIds == {1, 2}
ReceivingMemberIds == {102, 103}
\* JavaScript undefined / SQL NULL of a numeric field.
Undefined == 0 - 1
VisitValues == {Undefined, 0, 1, 2}
SpendValues == {Undefined, 0, 5}
\* The members the customers endpoint can list as candidates.
CandidateIds == {102}

\* An item of the referral report (the fields the processor reads).  The
\* items of giving member 1 show a receiving member first without visits,
\* then with two; those of giving member 2 one whose visit count is missing,
\* then is one.  Items about a member who is never a candidate all take the
\* same path, so one such item stands for them.
ReferralRecords ==
    {rec \in [givingMemberId : GivingMemberIds,
              receivingMemberId : ReceivingMemberIds,
              receivingMemberVisits : VisitValues,
              receivingMemberTotalSpend : SpendValues] :
        /\ rec.receivingMemberVisits \in {Undefined, 0}
              => rec.receivingMemberTotalSpend = rec.receivingMemberVisits
        /\ rec.receivingMemberVisits \in {1, 2} => rec.receivingMemberTotalSpend = 5
        /\ rec.receivingMemberId \in CandidateIds /\ rec.givingMemberId = 1
              => rec.receivingMemberVisits \in {0, 2}
        /\ rec.receivingMemberId \in CandidateIds /\ rec.givingMemberId = 2
              => rec.receivingMemberVisits \in {Undefined, 1}
        /\ rec.receivingMemberId \notin CandidateIds
              => rec.givingMemberId = 1 /\ rec.receivingMemberVisits = 1}

NoReferral ==
    [givingMemberId |-> 0, receivingMemberId |-> 0,
     receivingMemberVisits |-> Undefined, receivingMemberTotalSpend |-> Undefined]

Pairs == GivingMemberIds \X ReceivingMemberIds

PairOf(rec) == <<rec.givingMemberId, rec.receivingMemberId>>

\* Responses the upstream gives to the attempts of one logical request:
\* an HTTP status, or 0 for no response (timeout, connection error).
HttpStatuses == {200, 500}

\* Pages of candidates (member ids) as the customers endpoint serves them.
CustomerPages == {<<c>> : c \in CandidateIds}

RECURSIVE SeqsUpTo(_, _)
SeqsUpTo(S, n) ==
    IF n = 0 THEN {<<>>}
    ELSE LET shorter == SeqsUpTo(S, n - 1)
         IN shorter \cup {Append(s, x) : s \in {t \in shorter : Len(t) = n - 1}, x \in S}

\* The responses the attempts of one request can meet: every attempt but the
\* last made fails, and only the MAX_RETRIES-th may fail too.
ResponseRuns ==
    {s \in SeqsUpTo(HttpStatuses, MAX_RETRIES) :
        /\ s # <<>>
        /\ \A k \in 1..(Len(s) - 1) : s[k] # 200
        /\ s[Len(s)] # 200 => Len(s) = MAX_RETRIES}

PageSeqs == SeqsUpTo(CustomerPages, MaxPages)
Reports == SeqsUpTo(ReferralRecords, MaxReportLen)

VARIABLES
    world,          \* the environment: upstream data and what may go wrong
    ledger,         \* the referral_rewards table: per pair, its rows
    granted,        \* upstream: rewards granted per pair (saturating count)
    pc,             \* per run: where processReferralRewards is
    customers,      \* per run: member ids in customerMap
    pollLog,        \* per run: statuses seen by pollReferralReport so far
    reportLen,      \* per run: referralData.length
    referral,       \* per run: the item the loop is at (or was last at)
    isQualified,    \* per run: isQualified of the current item
    rewardSuccess,  \* per run: rewardSuccess of the current item
    processedCount,
    rewardedCount,
    skippedCount,
    abortError,     \* per run: the run-fatal error, "" if none
    log,            \* per run: what was done for the current item
    baseline,       \* per run: the ledger as it was when the run started
    call            \* one call of a function followed on its own, step by step

\* The state of the runs and of what they share.
runVars == <<world, ledger, granted, pc, customers, pollLog, reportLen, referral,
             isQualified, rewardSuccess, processedCount, rewardedCount,
             skippedCount, abortError, log, baseline>>

vars == <<world, ledger, granted, pc, customers, pollLog, reportLen, referral,
          isQualified, rewardSuccess, processedCount, rewardedCount,
          skippedCount, abortError, log, baseline, call>>

\* ------------------------------------------------------- pure functions

\* JavaScript `v || d` on a number: 0 and undefined are falsy.
OrDefault(v, d) == IF v = Undefined \/ v = 0 THEN d ELSE v

\* sendRequestWithRetry: the attempt loop.  responses[k] is the status the
\* k-th attempt meets; a status >= 400 or no response is a failed attempt.
OnlyServerErrorsFail(status) == status = 0 \/ status >= 500

AttemptFails(status) == status = 0 \/ status >= 400

RECURSIVE RetryFrom(_, _)
RetryFrom(responses, attempt) ==
    IF ~AttemptFails(responses[attempt]) THEN [ok |-> TRUE, attempts |-> attempt]
    ELSE IF attempt = MAX_RETRIES THEN [ok |-> FALSE, attempts |-> attempt]
    ELSE RetryFrom(responses, attempt + 1)

sendRequestWithRetry(responses) == RetryFrom(responses, 1)

\* fetchCustomersWithOneVisit: pages 0, 1, ... until an empty page or a page
\* whose fetch fails; failAt is the first page (1-based) whose fetch fails.
RECURSIVE ConcatPages(_, _)
ConcatPages(pages, n) ==
    IF n = 0 THEN <<>> ELSE ConcatPages(pages, n - 1) \o pages[n]

fetchCustomersWithOneVisit(pages, failAt) ==
    LET fetched == IF failAt <= Len(pages) THEN failAt - 1 ELSE Len(pages)
    IN ConcatPages(pages, fetched)

\* customerMap: keyed by memberId.
customerMap(custs) == {custs[i] : i \in 1..Len(custs)}

\* customerMap.get(referral.receivingMemberId) finds a candidate.
MatchesAnyone(map, rec) == TRUE

InCustomerMap(map, rec) == rec.receivingMemberId \in map

\* isQualified = (referral.receivingMemberVisits || 0) >= 1
QualifiedFromTwoVisits(rec) == OrDefault(rec.receivingMemberVisits, 0) >= 2

IsQualified(rec) == OrDefault(rec.receivingMemberVisits, 0) >= 1

\* What a turn of the polling loop does with the status it saw on the given
\* attempt (0-based): return the items, go round again, or throw.
PollOneTurnMore(attempt, seen) ==
    IF seen = "completed" THEN "return"
    ELSE IF attempt = POLL_MAX_ATTEMPTS THEN "throw"
    ELSE "continue"

PollErrorRaisedAtOnce(attempt, seen) ==
    IF seen = "completed" THEN "return"
    ELSE IF seen \in {"error", "failed"} \/ attempt = POLL_MAX_ATTEMPTS - 1 THEN "throw"
    ELSE "continue"

PollTurn(attempt, seen) ==
    IF seen = "completed" THEN "return"
    ELSE IF attempt = POLL_MAX_ATTEMPTS - 1 THEN "throw"
    ELSE "continue"

\* The error the polling loop ends with.
PollError(seen) ==
    IF seen = "pending" THEN "Referral report polling timeout"
    ELSE IF seen = "failed" THEN "Referral report failed on server"
    ELSE "HTTP error"

\* The wait sendRequestWithRetry inserts after the failed attempt numbered
\* attempt (1-based): Math.min(INITIAL_RETRY_DELAY * 2^(attempt-1), MAX_RETRY_DELAY).
Min(a, b) == IF a <= b THEN a ELSE b

DelayDoublesFromSecondAttempt(attempt) ==
    Min(INITIAL_RETRY_DELAY * 2 ^ attempt, MAX_RETRY_DELAY)

delayTime(attempt) == Min(INITIAL_RETRY_DELAY * 2 ^ (attempt - 1), MAX_RETRY_DELAY)

\* A field of a response body that may be missing: present tells whether the
\* body carries it (an array, empty or not, is truthy), value is the array.
Missing == [present |-> FALSE, value |-> <<>>]
Carried(items) == [present |-> TRUE, value |-> items]

\* response.reportData?.items || response.items || []
\* response.reportData says whether the body has a reportData object, nested
\* is its items field, items the top-level items field.
ItemsPreferringTopLevel(response) ==
    IF response.items.present THEN response.items.value
    ELSE IF response.reportData /\ response.nested.present THEN response.nested.value
    ELSE <<>>

ReportItems(response) ==
    IF response.reportData /\ response.nested.present THEN response.nested.value
    ELSE IF response.items.present THEN response.items.value
    ELSE <<>>

\* One turn of the while loop of fetchCustomersWithOneVisit: failed says the
\* page fetch threw (after the executor's retries), payload is
\* response.payload otherwise.  "push" appends the page and advances the
\* cursor, "stop" sets hasMoreData to false.
PageTurnIgnoresFailure(payload, failed) ==
    IF failed \/ payload # <<>> THEN "push" ELSE "stop"

PageTurn(payload, failed) ==
    IF failed THEN "stop"
    ELSE IF payload # <<>> THEN "push" ELSE "stop"

\* ------------------------------------------------------------ the ledger

\* The trigger update_qualification_status (BEFORE INSERT OR UPDATE).
update_qualification_status(row) ==
    [row EXCEPT !.processing_status =
        IF row.receivingMemberVisits >= 1 THEN "qualified" ELSE "not_qualified"]

\* The rows with the given "givingMemberId" and "receivingMemberId".
RowsOf(l, g, r) == l[<<g, r>>]

\* CONSTRAINT referral_rewards_unique_lifetime_pair.
NoUniqueConstraint(l, g, r) == FALSE

referral_rewards_unique_lifetime_pair(l, g, r) == RowsOf(l, g, r) # <<>>

\* The record updateSupabaseRecord builds from referralData (the columns the
\* claims are about; processing_status takes the column default).
LedgerRecordAlwaysRewarded(referralData) ==
    [givingMemberRewarded |-> TRUE,
     receivingMemberTotalSpend |-> OrDefault(referralData.receivingMemberTotalSpend, 0),
     receivingMemberVisits |-> referralData.receivingMemberVisits,
     processing_status |-> "pending"]

LedgerRecord(referralData) ==
    [givingMemberRewarded |-> referralData.givingMemberRewarded,
     receivingMemberTotalSpend |-> OrDefault(referralData.receivingMemberTotalSpend, 0),
     receivingMemberVisits |-> referralData.receivingMemberVisits,
     processing_status |-> "pending"]

\* insert(record) of a row for the pair.
Insert(l, pair, record) ==
    [l EXCEPT ![pair] = Append(@, update_qualification_status(record))]

\* update({...}).eq('givingMemberId', ...).eq('receivingMemberId', ...)
UpdateAddsVisits(l, pair, record) ==
    [l EXCEPT ![pair] =
        [i \in 1..Len(@) |->
            update_qualification_status(
                [@[i] EXCEPT
                    !.receivingMemberTotalSpend = record.receivingMemberTotalSpend,
                    !.receivingMemberVisits = @ + record.receivingMemberVisits,
                    !.givingMemberRewarded = record.givingMemberRewarded])]]

Update(l, pair, record) ==
    [l EXCEPT ![pair] =
        [i \in 1..Len(@) |->
            update_qualification_status(
                [@[i] EXCEPT
                    !.receivingMemberTotalSpend = record.receivingMemberTotalSpend,
                    !.receivingMemberVisits = record.receivingMemberVisits,
                    !.givingMemberRewarded = record.givingMemberRewarded])]]

\* updateSupabaseRecord: insert first, update on unique_violation (23505).
\* fault: the store call fails with another error or throws.
updateSupabaseRecord(l, referralData, fault) ==
    LET record == LedgerRecord(referralData)
        pair == <<referralData.givingMemberId, referralData.receivingMemberId>>
    IN IF fault THEN [ledger |-> l, ok |-> FALSE, path |-> "error"]
       ELSE IF referral_rewards_unique_lifetime_pair(l, pair[1], pair[2])
            THEN [ledger |-> Update(l, pair, record), ok |-> TRUE, path |-> "update"]
            ELSE [ledger |-> Insert(l, pair, record), ok |-> TRUE, path |-> "insert"]

\* checkIfAlreadyProcessed: a query error or exception reads as not processed.
SkipOnlyRewarded(l, g, r, fault) ==
    LET data == RowsOf(l, g, r)
    IN IF fault \/ data = <<>> THEN [processed |-> FALSE, rewarded |-> FALSE]
       ELSE LET existingRecord == data[1]
            IN [processed |-> existingRecord.givingMemberRewarded,
                rewarded |-> existingRecord.givingMemberRewarded]

LookupFailureSkips(l, g, r, fault) ==
    LET data == RowsOf(l, g, r)
    IN IF fault THEN [processed |-> TRUE, rewarded |-> FALSE]
       ELSE IF data = <<>> THEN [processed |-> FALSE, rewarded |-> FALSE]
       ELSE [processed |-> TRUE, rewarded |-> data[1].givingMemberRewarded]

LookupAlwaysMisses(l, g, r, fault) == [processed |-> FALSE, rewarded |-> FALSE]

checkIfAlreadyProcessed(l, g, r, fault) ==
    LET data == RowsOf(l, g, r)
    IN IF fault \/ data = <<>> THEN [processed |-> FALSE, rewarded |-> FALSE]
       ELSE LET existingRecord == data[1]
            IN [processed |-> TRUE, rewarded |-> existingRecord.givingMemberRewarded]

\* ------------------------------------------------------------------ state

\* What a run has done for the item it is at: the answer of the ledger lookup
\* (none, miss, hit, error), the calls of rewardGivingMember and of
\* updateSupabaseRecord, the path the commit took (insert, update, error),
\* and whether the item was counted as skipped.
Fresh ==
    [lookup |-> "none", issued |-> 0, wrote |-> 0, path |-> "", counted |-> FALSE]

NoBaseline == [ledger |-> <<>>, after |-> {}]

\* No function is followed on its own.
NoCall == [fn |-> "none"]

PcValues ==
    {"idle", "fetching", "polling", "loop", "reward", "commit",
     "summary", "noop", "throw", "done", "aborted"}

TypeOK ==
    /\ pc \in [Runs -> PcValues]
    /\ granted \in [Pairs -> 0..MaxGrants]
    /\ processedCount \in [Runs -> 0..MaxReportLen]
    /\ \A r \in Runs : Len(pollLog[r]) <= POLL_MAX_ATTEMPTS

\* The state of the runs before any is triggered.
InitRuns ==
    /\ ledger = [p \in Pairs |-> <<>>]
    /\ granted = [p \in Pairs |-> 0]
    /\ pc = [r \in Runs |-> "idle"]
    /\ customers = [r \in Runs |-> {}]
    /\ pollLog = [r \in Runs |-> <<>>]
    /\ reportLen = [r \in Runs |-> 0]
    /\ referral = [r \in Runs |-> NoReferral]
    /\ isQualified = [r \in Runs |-> FALSE]
    /\ rewardSuccess = [r \in Runs |-> FALSE]
    /\ processedCount = [r \in Runs |-> 0]
    /\ rewardedCount = [r \in Runs |-> 0]
    /\ skippedCount = [r \in Runs |-> 0]
    /\ abortError = [r \in Runs |-> ""]
    /\ log = [r \in Runs |-> Fresh]
    /\ baseline = [r \in Runs |-> NoBaseline]

\* Any run may overlap any other, the store and the upstream may fail, and
\* every read of the upstream may see different data.
Init ==
    /\ world = [stable |-> FALSE, pages |-> <<>>, items |-> <<>>,
                ledgerFaults |-> TRUE, overlap |-> TRUE]
    /\ call = NoCall
    /\ InitRuns

Ended(r) == pc[r] \in {"done", "aborted"}

\* What the store may do to a call: FALSE works, TRUE fails.
LedgerFaults == IF world.ledgerFaults THEN BOOLEAN ELSE {FALSE}

\* The item the loop meets next.
AnyRecordOfReport(r) ==
    IF world.stable THEN {world.items[i] : i \in 1..Len(world.items)}
    ELSE ReferralRecords

NextRecords(r) ==
    IF world.stable THEN {world.items[processedCount[r] + 1]} ELSE ReferralRecords

\* Where the loop goes after the item numbered n.
AfterItem(r, n) == IF n = reportLen[r] THEN "summary" ELSE "loop"

\* ---------------------------------------------------------------- actions

\* The scheduler triggers a run; the run validates its environment.
StartRun(r) ==
    /\ pc[r] = "idle"
    /\ world.overlap \/ \A o \in Runs \ {r} : pc[o] = "idle" \/ Ended(o)
    /\ \E envOk \in BOOLEAN :
        /\ pc' = [pc EXCEPT ![r] = IF envOk THEN "fetching" ELSE "throw"]
        /\ abortError' = [abortError EXCEPT ![r] =
                IF envOk THEN "" ELSE "Missing required environment variables"]
    /\ baseline' = [baseline EXCEPT ![r] =
            IF world.stable
            THEN [ledger |-> ledger, after |-> {o \in Runs : pc[o] = "done"}]
            ELSE NoBaseline]
    /\ UNCHANGED <<call, world, ledger, granted, customers, pollLog, reportLen, referral,
                   isQualified, rewardSuccess, processedCount, rewardedCount,
                   skippedCount, log>>

\* The first step, were the report polled whatever the collector returned.
FetchDataPollsWithoutCandidates(r) ==
    /\ pc[r] = "fetching"
    /\ \E pages \in (IF world.stable THEN {world.pages} ELSE PageSeqs),
          responses \in ResponseRuns :
        \E failAt \in 1..(Len(pages) + 1),
           hasRunId \in (IF sendRequestWithRetry(responses).ok THEN BOOLEAN ELSE {FALSE}) :
            LET custs == customerMap(fetchCustomersWithOneVisit(pages, failAt))
                sent == sendRequestWithRetry(responses).ok
                initiated == sent /\ hasRunId
            IN /\ customers' = [customers EXCEPT ![r] = IF initiated THEN custs ELSE {}]
               /\ pc' = [pc EXCEPT ![r] =
                        IF ~initiated THEN "throw"
                        ELSE "polling"]
               /\ abortError' = [abortError EXCEPT ![r] =
                        IF ~sent THEN "HTTP error"
                        ELSE IF ~hasRunId
                             THEN "No reportRunId returned from referral report API"
                             ELSE ""]
    /\ UNCHANGED <<call, world, ledger, granted, pollLog, reportLen, referral, isQualified,
                   rewardSuccess, processedCount, rewardedCount, skippedCount, log,
                   baseline>>

\* Promise.all([fetchCustomersWithOneVisit(), initiateReferralReport()]).
FetchData(r) ==
    /\ pc[r] = "fetching"
    /\ \E pages \in (IF world.stable THEN {world.pages} ELSE PageSeqs),
          responses \in ResponseRuns :
        \E failAt \in 1..(Len(pages) + 1),
           hasRunId \in (IF sendRequestWithRetry(responses).ok THEN BOOLEAN ELSE {FALSE}) :
            LET custs == customerMap(fetchCustomersWithOneVisit(pages, failAt))
                sent == sendRequestWithRetry(responses).ok
                initiated == sent /\ hasRunId
            IN /\ customers' = [customers EXCEPT ![r] = IF initiated THEN custs ELSE {}]
               /\ pc' = [pc EXCEPT ![r] =
                        IF ~initiated THEN "throw"
                        ELSE IF custs = {} THEN "noop" ELSE "polling"]
               /\ abortError' = [abortError EXCEPT ![r] =
                        IF ~sent THEN "HTTP error"
                        ELSE IF ~hasRunId
                             THEN "No reportRunId returned from referral report API"
                             ELSE ""]
    /\ UNCHANGED <<call, world, ledger, granted, pollLog, reportLen, referral, isQualified,
                   rewardSuccess, processedCount, rewardedCount, skippedCount, log,
                   baseline>>

\* The polling loop, were the record loop entered while the report is not
\* completed.
PollReferralReportUnjoined(r) ==
    /\ pc[r] = "polling"
    /\ \E responses \in ResponseRuns :
       \E status \in (IF sendRequestWithRetry(responses).ok
                      THEN {"pending", "completed", "failed"} ELSE {"error"}) :
       \E n \in (IF status # "completed" THEN {0}
                 ELSE IF world.stable THEN {Len(world.items)} ELSE 0..MaxReportLen) :
        LET turn == PollTurn(Len(pollLog[r]), status)
        IN /\ IF turn = "return"
              THEN /\ pollLog' = [pollLog EXCEPT ![r] = <<>>]
                   /\ reportLen' = [reportLen EXCEPT ![r] = n]
                   /\ pc' = [pc EXCEPT ![r] = IF n = 0 THEN "noop" ELSE "loop"]
                   /\ UNCHANGED abortError
              ELSE /\ pollLog' = [pollLog EXCEPT ![r] = Append(@, status)]
                   /\ pc' = [pc EXCEPT ![r] =
                            IF turn = "throw" THEN "throw" ELSE "loop"]
                   /\ abortError' = [abortError EXCEPT ![r] =
                            IF turn = "throw" THEN PollError(status) ELSE ""]
                   /\ UNCHANGED reportLen
    /\ UNCHANGED <<call, world, ledger, granted, customers, referral, isQualified,
                   rewardSuccess, processedCount, rewardedCount, skippedCount, log,
                   baseline>>

\* One turn of the polling loop of pollReferralReport.  An error thrown in
\* the try block (the executor's, or the one raised for status failed) is
\* caught by the loop's own catch and rethrown only on the last attempt.
PollReferralReport(r) ==
    /\ pc[r] = "polling"
    /\ \E responses \in ResponseRuns :
       \E status \in (IF sendRequestWithRetry(responses).ok
                      THEN {"pending", "completed", "failed"} ELSE {"error"}) :
       \E n \in (IF status # "completed" THEN {0}
                 ELSE IF world.stable THEN {Len(world.items)} ELSE 0..MaxReportLen) :
        LET turn == PollTurn(Len(pollLog[r]), status)
        IN /\ IF turn = "return"
              THEN /\ pollLog' = [pollLog EXCEPT ![r] = <<>>]
                   /\ reportLen' = [reportLen EXCEPT ![r] = n]
                   /\ pc' = [pc EXCEPT ![r] = IF n = 0 THEN "noop" ELSE "loop"]
                   /\ UNCHANGED abortError
              ELSE /\ pollLog' = [pollLog EXCEPT ![r] = Append(@, status)]
                   /\ pc' = [pc EXCEPT ![r] =
                            IF turn = "throw" THEN "throw" ELSE "polling"]
                   /\ abortError' = [abortError EXCEPT ![r] =
                            IF turn = "throw" THEN PollError(status) ELSE ""]
                   /\ UNCHANGED reportLen
    /\ UNCHANGED <<call, world, ledger, granted, customers, referral, isQualified,
                   rewardSuccess, processedCount, rewardedCount, skippedCount, log,
                   baseline>>

\* Loop body, lines 534-548: the receiving member is not in customerMap.
SkipUnmatched(r) ==
    /\ pc[r] = "loop"
    /\ \E rec \in NextRecords(r) :
        /\ ~InCustomerMap(customers[r], rec)
        /\ referral' = [referral EXCEPT ![r] = rec]
    /\ processedCount' = [processedCount EXCEPT ![r] = @ + 1]
    /\ log' = [log EXCEPT ![r] = Fresh]
    /\ pc' = [pc EXCEPT ![r] = AfterItem(r, processedCount[r] + 1)]
    /\ UNCHANGED <<call, world, ledger, granted, customers, pollLog, reportLen, isQualified,
                   rewardSuccess, rewardedCount, skippedCount, abortError,
                   baseline>>

\* Loop body, lines 534-573: a matched item up to the ledger lookup and the
\* decision taken on its result.
CheckIfAlreadyProcessed(r) ==
    /\ pc[r] = "loop"
    /\ \E rec \in NextRecords(r), fault \in LedgerFaults :
        LET processStatus == checkIfAlreadyProcessed(
                ledger, rec.givingMemberId, rec.receivingMemberId, fault)
            qualified == IsQualified(rec)
            answer == IF fault THEN "error"
                      ELSE IF RowsOf(ledger, rec.givingMemberId, rec.receivingMemberId) = <<>>
                           THEN "miss" ELSE "hit"
        IN /\ InCustomerMap(customers[r], rec)
           /\ referral' = [referral EXCEPT ![r] = rec]
           /\ isQualified' = [isQualified EXCEPT ![r] = qualified]
           /\ IF processStatus.processed
              THEN /\ skippedCount' = [skippedCount EXCEPT ![r] = @ + 1]
                   /\ pc' = [pc EXCEPT ![r] = AfterItem(r, processedCount[r] + 1)]
                   /\ log' = [log EXCEPT ![r] =
                                [Fresh EXCEPT !.lookup = answer, !.counted = TRUE]]
              ELSE /\ pc' = [pc EXCEPT ![r] = IF qualified THEN "reward" ELSE "commit"]
                   /\ log' = [log EXCEPT ![r] = [Fresh EXCEPT !.lookup = answer]]
                   /\ UNCHANGED skippedCount
    /\ processedCount' = [processedCount EXCEPT ![r] = @ + 1]
    /\ rewardSuccess' = [rewardSuccess EXCEPT ![r] = FALSE]
    /\ UNCHANGED <<call, world, ledger, granted, customers, pollLog, reportLen,
                   rewardedCount, abortError, baseline>>

\* rewardGivingMember: the purchase request; true iff the executor succeeded.
RewardGivingMember(r) ==
    /\ pc[r] = "reward"
    /\ \E responses \in ResponseRuns :
        LET ok == sendRequestWithRetry(responses).ok
            pair == PairOf(referral[r])
        IN /\ rewardSuccess' = [rewardSuccess EXCEPT ![r] = ok]
           /\ granted' = [granted EXCEPT ![pair] =
                    IF ok /\ @ < MaxGrants THEN @ + 1 ELSE @]
    /\ log' = [log EXCEPT ![r].issued = @ + 1]
    /\ pc' = [pc EXCEPT ![r] = "commit"]
    /\ UNCHANGED <<call, world, ledger, customers, pollLog, reportLen, referral, isQualified,
                   processedCount, rewardedCount, skippedCount, abortError, baseline>>

\* The commit, were a failed write to end the run.
UpdateSupabaseRecordFatal(r) ==
    /\ pc[r] = "commit"
    /\ \E fault \in LedgerFaults :
        LET referralRecord ==
                [givingMemberId |-> referral[r].givingMemberId,
                 receivingMemberId |-> referral[r].receivingMemberId,
                 givingMemberRewarded |-> rewardSuccess[r],
                 receivingMemberTotalSpend |->
                     OrDefault(referral[r].receivingMemberTotalSpend, 0),
                 receivingMemberVisits |->
                     OrDefault(referral[r].receivingMemberVisits, 1)]
            result == updateSupabaseRecord(ledger, referralRecord, fault)
        IN /\ ledger' = result.ledger
           /\ log' = [log EXCEPT ![r].wrote = @ + 1, ![r].path = result.path]
           /\ pc' = [pc EXCEPT ![r] =
                    IF result.ok THEN AfterItem(r, processedCount[r]) ELSE "throw"]
           /\ abortError' = [abortError EXCEPT ![r] =
                    IF result.ok THEN @ ELSE "Supabase error"]
    /\ rewardedCount' = [rewardedCount EXCEPT ![r] =
            IF rewardSuccess[r] THEN @ + 1 ELSE @]
    /\ UNCHANGED <<call, world, granted, customers, pollLog, reportLen, referral, isQualified,
                   rewardSuccess, processedCount, skippedCount, baseline>>

\* The commit, were the reward counted only when the write succeeded.
UpdateSupabaseRecordCountsStored(r) ==
    /\ pc[r] = "commit"
    /\ \E fault \in LedgerFaults :
        LET referralRecord ==
                [givingMemberId |-> referral[r].givingMemberId,
                 receivingMemberId |-> referral[r].receivingMemberId,
                 givingMemberRewarded |-> rewardSuccess[r],
                 receivingMemberTotalSpend |->
                     OrDefault(referral[r].receivingMemberTotalSpend, 0),
                 receivingMemberVisits |->
                     OrDefault(referral[r].receivingMemberVisits, 1)]
            result == updateSupabaseRecord(ledger, referralRecord, fault)
        IN /\ ledger' = result.ledger
           /\ log' = [log EXCEPT ![r].wrote = @ + 1, ![r].path = result.path]
           /\ rewardedCount' = [rewardedCount EXCEPT ![r] =
                    IF rewardSuccess[r] /\ result.ok THEN @ + 1 ELSE @]
    /\ pc' = [pc EXCEPT ![r] = AfterItem(r, processedCount[r])]
    /\ UNCHANGED <<call, world, granted, customers, pollLog, reportLen, referral, isQualified,
                   rewardSuccess, processedCount, skippedCount, abortError,
                   baseline>>

\* Lines 585-611: the commit of the item and the counting of the reward.
UpdateSupabaseRecord(r) ==
    /\ pc[r] = "commit"
    /\ \E fault \in LedgerFaults :
        LET referralRecord ==
                [givingMemberId |-> referral[r].givingMemberId,
                 receivingMemberId |-> referral[r].receivingMemberId,
                 givingMemberRewarded |-> rewardSuccess[r],
                 receivingMemberTotalSpend |->
                     OrDefault(referral[r].receivingMemberTotalSpend, 0),
                 receivingMemberVisits |->
                     OrDefault(referral[r].receivingMemberVisits, 1)]
            result == updateSupabaseRecord(ledger, referralRecord, fault)
        IN /\ ledger' = result.ledger
           /\ log' = [log EXCEPT ![r].wrote = @ + 1, ![r].path = result.path]
    /\ rewardedCount' = [rewardedCount EXCEPT ![r] =
            IF rewardSuccess[r] THEN @ + 1 ELSE @]
    /\ pc' = [pc EXCEPT ![r] = AfterItem(r, processedCount[r])]
    /\ UNCHANGED <<call, world, granted, customers, pollLog, reportLen, referral, isQualified,
                   rewardSuccess, processedCount, skippedCount, abortError,
                   baseline>>

\* The end of a run, were the catch block to swallow the error.
ReturnSwallowsError(r) ==
    /\ pc[r] \in {"summary", "noop", "throw"}
    /\ pc' = [pc EXCEPT ![r] = "done"]
    /\ UNCHANGED customers
    /\ pollLog' = [pollLog EXCEPT ![r] = <<>>]
    /\ reportLen' = [reportLen EXCEPT ![r] = 0]
    /\ referral' = [referral EXCEPT ![r] = NoReferral]
    /\ isQualified' = [isQualified EXCEPT ![r] = FALSE]
    /\ rewardSuccess' = [rewardSuccess EXCEPT ![r] = FALSE]
    /\ processedCount' = [processedCount EXCEPT ![r] = 0]
    /\ rewardedCount' = [rewardedCount EXCEPT ![r] = 0]
    /\ skippedCount' = [skippedCount EXCEPT ![r] = 0]
    /\ log' = [log EXCEPT ![r] = Fresh]
    /\ baseline' = [baseline EXCEPT ![r] = NoBaseline]
    /\ UNCHANGED <<call, world, ledger, granted, abortError>>

\* The end of a run, were an early return to count as a failure.
ReturnFailsOnNoop(r) ==
    /\ pc[r] \in {"summary", "noop", "throw"}
    /\ pc' = [pc EXCEPT ![r] = IF pc[r] = "summary" THEN "done" ELSE "aborted"]
    /\ UNCHANGED customers
    /\ pollLog' = [pollLog EXCEPT ![r] = <<>>]
    /\ reportLen' = [reportLen EXCEPT ![r] = 0]
    /\ referral' = [referral EXCEPT ![r] = NoReferral]
    /\ isQualified' = [isQualified EXCEPT ![r] = FALSE]
    /\ rewardSuccess' = [rewardSuccess EXCEPT ![r] = FALSE]
    /\ processedCount' = [processedCount EXCEPT ![r] = 0]
    /\ rewardedCount' = [rewardedCount EXCEPT ![r] = 0]
    /\ skippedCount' = [skippedCount EXCEPT ![r] = 0]
    /\ log' = [log EXCEPT ![r] = Fresh]
    /\ baseline' = [baseline EXCEPT ![r] = NoBaseline]
    /\ UNCHANGED <<call, world, ledger, granted, abortError>>

\* processReferralRewards returns (early, or after the summary) or its catch
\* block ends the run; the locals of the call are gone (the candidates the
\* run saw are kept, to tell which upstream data it ran on).
Return(r) ==
    /\ pc[r] \in {"summary", "noop", "throw"}
    /\ pc' = [pc EXCEPT ![r] = IF pc[r] = "throw" THEN "aborted" ELSE "done"]
    /\ UNCHANGED customers
    /\ pollLog' = [pollLog EXCEPT ![r] = <<>>]
    /\ reportLen' = [reportLen EXCEPT ![r] = 0]
    /\ referral' = [referral EXCEPT ![r] = NoReferral]
    /\ isQualified' = [isQualified EXCEPT ![r] = FALSE]
    /\ rewardSuccess' = [rewardSuccess EXCEPT ![r] = FALSE]
    /\ processedCount' = [processedCount EXCEPT ![r] = 0]
    /\ rewardedCount' = [rewardedCount EXCEPT ![r] = 0]
    /\ skippedCount' = [skippedCount EXCEPT ![r] = 0]
    /\ log' = [log EXCEPT ![r] = Fresh]
    /\ baseline' = [baseline EXCEPT ![r] = NoBaseline]
    /\ UNCHANGED <<call, world, ledger, granted, abortError>>

Next ==
    \E r \in Runs :
        \/ StartRun(r)
        \/ FetchData(r)
        \/ PollReferralReport(r)
        \/ SkipUnmatched(r)
        \/ CheckIfAlreadyProcessed(r)
        \/ RewardGivingMember(r)
        \/ UpdateSupabaseRecord(r)
        \/ Return(r)

Spec == Init /\ [][Next]_vars

\* The pipeline run again on identical upstream data: the candidates and the
\* report are fixed, the store answers every call, and a run starts only when
\* no other is in flight.
InitRerun ==
    /\ world \in [stable : {TRUE}, pages : PageSeqs, items : Reports,
                  ledgerFaults : {FALSE}, overlap : {FALSE}]
    /\ call = NoCall
    /\ InitRuns

SpecRerun == InitRerun /\ [][Next]_vars

\* ------------------------------------------- single calls, step by step
\* One call of sendRequestWithRetry, of the item extraction of
\* pollReferralReport, of its polling loop, of fetchCustomersWithOneVisit or
\* of updateSupabaseRecord (made twice), on inputs drawn from bounded sets;
\* no run is in flight.

\* What an attempt of a request can meet: no response (0: timeout, connection
\* error), or an HTTP status.
AttemptStatuses == {0, 200, 404, 500}

\* The responses the MAX_RETRIES attempts of a request would meet.
AttemptRuns == [1..MAX_RETRIES -> AttemptStatuses]

\* Bodies of a completed status response.
ItemFields == {Missing} \cup {Carried(items) : items \in Reports}

CompletedResponses ==
    {resp \in [reportData : BOOLEAN, nested : ItemFields, items : ItemFields] :
        ~resp.reportData => resp.nested = Missing}

\* Pages the customers endpoint serves, page 0 first; past the last it serves
\* an empty page.
ServedPages == {<<>>, <<102>>, <<103>>, <<102, 103>>}
ServedRuns == SeqsUpTo(ServedPages, MaxServed)

\* The page the endpoint serves for the cursor value page (0-based).
PayloadOf(served, page) == IF page < Len(served) THEN served[page + 1] ELSE <<>>

\* A ledger holding at most a row for the pair (1, 102), and commits for it.
CommitPair == <<1, 102>>
LedgerRows ==
    {update_qualification_status(row) :
        row \in [givingMemberRewarded : BOOLEAN, receivingMemberTotalSpend : {0, 5},
                 receivingMemberVisits : {0, 1}, processing_status : {"pending"}]}
Ledgers ==
    {[p \in Pairs |-> <<>>]}
        \cup {[p \in Pairs |-> IF p = CommitPair THEN <<row>> ELSE <<>>] : row \in LedgerRows}
Commits ==
    [givingMemberId : {CommitPair[1]}, receivingMemberId : {CommitPair[2]},
     givingMemberRewarded : BOOLEAN, receivingMemberTotalSpend : SpendValues,
     receivingMemberVisits : {0, 1, 2}]

\* What each status query of a polling loop would meet: a status of the
\* report, or "error" when sendRequestWithRetry throws.
StatusRuns == [1..POLL_MAX_ATTEMPTS -> {"pending", "completed", "failed", "error"}]

Calls ==
    [fn : {"sendRequestWithRetry"}, responses : AttemptRuns, attempt : {1},
     waits : {<<>>}, outcome : {"running"}, value : {0}]
    \cup [fn : {"pollReferralReport"}, response : CompletedResponses,
          outcome : {"running"}, items : {<<>>}]
    \cup {c \in [fn : {"fetchCustomersWithOneVisit"}, served : ServedRuns,
                  failAt : 0..(MaxServed + 1), page : {0}, customers : {<<>>},
                  hasMoreData : {TRUE}, requested : {<<>>}] :
              c.failAt <= Len(c.served) + 1}
    \cup [fn : {"updateSupabaseRecord"}, ledger : Ledgers, referralData : Commits,
          results : {<<>>}]
    \cup [fn : {"pollReferralReport loop"}, statuses : StatusRuns, attempt : {0},
          outcome : {"running"}, error : {""}]

InitCalls ==
    /\ world = [stable |-> FALSE, pages |-> <<>>, items |-> <<>>,
                ledgerFaults |-> FALSE, overlap |-> FALSE]
    /\ call \in Calls
    /\ InitRuns

\* One pass of the for loop of sendRequestWithRetry: the attempt, and on
\* failure the rethrow (last attempt) or the wait before the next.  value is
\* the attempt whose response.data is returned, or the status of the error
\* thrown.
SendRequestAttempt ==
    /\ call.fn = "sendRequestWithRetry"
    /\ call.outcome = "running"
    /\ LET status == call.responses[call.attempt]
       IN call' =
            IF ~AttemptFails(status)
            THEN [call EXCEPT !.outcome = "returned", !.value = call.attempt]
            ELSE IF call.attempt = MAX_RETRIES
                 THEN [call EXCEPT !.outcome = "raised", !.value = status]
                 ELSE [call EXCEPT !.waits = Append(@, delayTime(call.attempt)),
                                   !.attempt = @ + 1]
    /\ UNCHANGED runVars

\* pollReferralReport on a completed status response: lines 273-277.
ExtractItems ==
    /\ call.fn = "pollReferralReport"
    /\ call.outcome = "running"
    /\ call' = [call EXCEPT !.outcome = "returned", !.items = ReportItems(call.response)]
    /\ UNCHANGED runVars

\* One turn of the while loop of fetchCustomersWithOneVisit.
FetchPage ==
    /\ call.fn = "fetchCustomersWithOneVisit"
    /\ call.hasMoreData
    /\ LET failed == call.page = call.failAt
           payload == IF failed THEN <<>> ELSE PayloadOf(call.served, call.page)
       IN call' =
            IF PageTurn(payload, failed) = "push"
            THEN [call EXCEPT !.customers = @ \o payload, !.page = @ + 1,
                              !.requested = Append(@, call.page)]
            ELSE [call EXCEPT !.hasMoreData = FALSE,
                              !.requested = Append(@, call.page)]
    /\ UNCHANGED runVars

\* updateSupabaseRecord(referralData), called up to twice with the same
\* argument, the store answering.
CommitSame ==
    /\ call.fn = "updateSupabaseRecord"
    /\ Len(call.results) < 2
    /\ LET result == updateSupabaseRecord(call.ledger, call.referralData, FALSE)
       IN call' = [call EXCEPT !.ledger = result.ledger,
                               !.results = Append(@, result)]
    /\ UNCHANGED runVars

\* One turn of the for loop of pollReferralReport, attempt counting from 0.
PollQuery ==
    /\ call.fn = "pollReferralReport loop"
    /\ call.outcome = "running"
    /\ LET seen == call.statuses[call.attempt + 1]
           turn == PollTurn(call.attempt, seen)
       IN call' =
            IF turn = "return" THEN [call EXCEPT !.outcome = "returned"]
            ELSE IF turn = "throw"
                 THEN [call EXCEPT !.outcome = "raised", !.error = PollError(seen)]
                 ELSE [call EXCEPT !.attempt = @ + 1]
    /\ UNCHANGED runVars

NextCalls ==
    \/ PollQuery
    \/ SendRequestAttempt
    \/ ExtractItems
    \/ FetchPage
    \/ CommitSame

SpecCalls == InitCalls /\ [][NextCalls]_vars

\* ------------------------------------------- runs with their requests
\* The runs, with the requests that carry an idempotence key followed one
\* transmission at a time: the report initiation and the reward purchase.
\* generateGuid draws 122 random bits; it is modelled as never returning a
\* value twice, call.guids counting its calls.  Runs follow one another and
\* the store answers.

\* No requestOptions built yet.
NoOptions == [kind |-> "none", item |-> 0, key |-> 0]

\* The x-idempotence-key the attempt numbered attempt of sendRequestWithRetry
\* sends: axios({...requestOptions}) reads the headers built by the caller.
FreshKeyPerAttempt(options, attempt) == options.key + (attempt - 1)

IdempotenceKeyOf(options, attempt) == options.key

InitRequests ==
    /\ world = [stable |-> FALSE, pages |-> <<>>, items |-> <<>>,
                ledgerFaults |-> FALSE, overlap |-> FALSE]
    /\ call = [fn |-> "requests", guids |-> 0,
               options |-> [r \in Runs |-> NoOptions],
               attempt |-> [r \in Runs |-> 0],
               initiations |-> [r \in Runs |-> 0],
               keys |-> {}]
    /\ InitRuns

\* The logical call the run is making, if it is at one.
PendingCall(r) ==
    IF pc[r] = "fetching" THEN [kind |-> "initiate", item |-> 0]
    ELSE IF pc[r] = "reward" THEN [kind |-> "reward", item |-> processedCount[r]]
    ELSE [kind |-> "none", item |-> 0]

\* The requestOptions of the run are those of the call it is making.
OptionsBuilt(r) ==
    /\ call.options[r].kind = PendingCall(r).kind
    /\ call.options[r].item = PendingCall(r).item

\* initiateReferralReport, lines 233-241: the requestOptions, with
\* generateIdempotenceKey() evaluated once.
BuildInitiationRequest(r) ==
    /\ pc[r] = "fetching"
    /\ ~OptionsBuilt(r)
    /\ call' = [call EXCEPT
            !.guids = @ + 1,
            !.options[r] = [kind |-> "initiate", item |-> 0, key |-> call.guids + 1],
            !.attempt[r] = 0,
            !.initiations[r] = @ + 1]
    /\ UNCHANGED runVars

\* rewardGivingMember, lines 332-367: the payload (two generateGuid() calls)
\* and the requestOptions, with generateIdempotenceKey() evaluated once.
BuildRewardRequest(r) ==
    /\ pc[r] = "reward"
    /\ ~OptionsBuilt(r)
    /\ call' = [call EXCEPT
            !.guids = @ + 3,
            !.options[r] = [kind |-> "reward", item |-> processedCount[r],
                            key |-> call.guids + 3],
            !.attempt[r] = 0]
    /\ UNCHANGED runVars

\* One attempt of sendRequestWithRetry on the requestOptions built.
TransmitRequest(r) ==
    /\ PendingCall(r).kind # "none"
    /\ OptionsBuilt(r)
    /\ call.attempt[r] < MAX_RETRIES
    /\ call' = [call EXCEPT
            !.attempt[r] = @ + 1,
            !.keys = @ \cup {[run |-> r,
                              kind |-> call.options[r].kind,
                              item |-> call.options[r].item,
                              key |-> IdempotenceKeyOf(call.options[r],
                                                       call.attempt[r] + 1)]}]
    /\ UNCHANGED runVars

\* The call the run is making has been transmitted at least once.
Transmitted(r) == OptionsBuilt(r) /\ call.attempt[r] >= 1

NextRequests ==
    \E r \in Runs :
        \/ StartRun(r)
        \/ BuildInitiationRequest(r)
        \/ BuildRewardRequest(r)
        \/ TransmitRequest(r)
        \/ Transmitted(r) /\ FetchData(r)
        \/ PollReferralReport(r)
        \/ SkipUnmatched(r)
        \/ CheckIfAlreadyProcessed(r)
        \/ Transmitted(r) /\ RewardGivingMember(r)
        \/ UpdateSupabaseRecord(r)
        \/ Return(r)

SpecRequests == InitRequests /\ [][NextRequests]_vars

\* ------------------------------------------- runs under the scheduler
\* The cron callback of scheduler.js around each run: call.cb[r] is where the
\* callback that triggered run r stands, call.hook[r] what became of its
\* alert, call.alive whether the process lives.  IS_PRODUCTION and the
\* presence of WEBHOOK_URL are fixed for the life of the process.  The
\* callbacks may overlap; the store answers.

\* The catch block of processReferralRewards, lines 624-634.
RethrowsInProduction(isProduction) == "rethrow"

OnCriticalError(isProduction) == IF isProduction THEN "exit" ELSE "rethrow"

InitScheduler ==
    /\ world = [stable |-> FALSE, pages |-> <<>>, items |-> <<>>,
                ledgerFaults |-> FALSE, overlap |-> TRUE]
    /\ call \in [fn : {"scheduler"}, IS_PRODUCTION : BOOLEAN, WEBHOOK_URL : BOOLEAN,
                  alive : {TRUE},
                  cb : {[r \in Runs |-> "none"]},
                  hook : {[r \in Runs |-> "none"]}]
    /\ InitRuns

\* The schedule fires: the callback starts and calls processReferralRewards.
ScheduledTrigger(r) ==
    /\ call.alive
    /\ pc[r] = "idle"
    /\ call.cb[r] = "none"
    /\ call' = [call EXCEPT !.cb[r] = "awaiting"]
    /\ UNCHANGED runVars

\* The catch block of processReferralRewards on the error of the run: the
\* process exits, or the error is thrown on to the caller.
CatchBlock(r) ==
    /\ call.alive
    /\ pc[r] = "throw"
    /\ call.cb[r] = "awaiting"
    /\ call' = IF OnCriticalError(call.IS_PRODUCTION) = "exit"
               THEN [call EXCEPT !.alive = FALSE, !.cb[r] = "exited"]
               ELSE [call EXCEPT !.cb[r] = "rethrown"]
    /\ UNCHANGED runVars

\* await processReferralRewards() resolves: scheduler.js line 23.
CallbackCompletes(r) ==
    /\ call.alive
    /\ pc[r] = "done"
    /\ call.cb[r] = "awaiting"
    /\ call' = [call EXCEPT !.cb[r] = "completed"]
    /\ UNCHANGED runVars

\* The catch of the callback, lines 24-27: the alert is sent if WEBHOOK_URL
\* is set.
CallbackCatch(r) ==
    /\ call.alive
    /\ pc[r] = "aborted"
    /\ call.cb[r] = "rethrown"
    /\ call' = IF call.WEBHOOK_URL
               THEN [call EXCEPT !.cb[r] = "alerting", !.hook[r] = "invoked"]
               ELSE [call EXCEPT !.cb[r] = "failed"]
    /\ UNCHANGED runVars

\* await fetch(WEBHOOK_URL, ...) resolves, or rejects into the inner catch
\* (lines 28-40); the callback ends either way.
WebhookDelivery(r) ==
    /\ call.alive
    /\ call.cb[r] = "alerting"
    /\ \E delivered \in BOOLEAN :
        call' = [call EXCEPT !.cb[r] = "failed",
                             !.hook[r] = IF delivered THEN "delivered" ELSE "undelivered"]
    /\ UNCHANGED runVars

NextScheduler ==
    \E r \in Runs :
        \/ ScheduledTrigger(r)
        \/ call.alive /\ call.cb[r] = "awaiting" /\ StartRun(r)
        \/ call.alive /\ FetchData(r)
        \/ call.alive /\ PollReferralReport(r)
        \/ call.alive /\ SkipUnmatched(r)
        \/ call.alive /\ CheckIfAlreadyProcessed(r)
        \/ call.alive /\ RewardGivingMember(r)
        \/ call.alive /\ UpdateSupabaseRecord(r)
        \/ CatchBlock(r)
        \/ call.alive /\ (pc[r] = "throw" => call.cb[r] = "rethrown") /\ Return(r)
        \/ CallbackCompletes(r)
        \/ CallbackCatch(r)
        \/ WebhookDelivery(r)

SpecScheduler == InitScheduler /\ [][NextScheduler]_vars

\* ----------------------------------------------------------------- claims

Row(p) == ledger[p][1]

Matched(r) ==
    /\ referral[r] # NoReferral
    /\ referral[r].receivingMemberId \in customers[r]

\* C1: for every pair the Reward Issuer succeeds at most once, whatever the
\* runs and the failures.
C1_AtMostOneReward == \A p \in Pairs : granted[p] <= 1

\* C2: the ledger holds at most one row per pair (givingMemberId,
\* receivingMemberId) in every reachable state.
C2_OneRowPerPair == \A p \in Pairs : Len(ledger[p]) <= 1

\* Two runs have committed the same pair, the second through the update path.
C2_Witness ==
    \E r1, r2 \in Runs :
        /\ r1 # r2
        /\ Matched(r1) /\ Matched(r2)
        /\ PairOf(referral[r1]) = PairOf(referral[r2])
        /\ log[r1].path = "insert"
        /\ log[r2].path = "update"
        /\ Len(ledger[PairOf(referral[r1])]) = 1

\* C3: a row's givingMemberRewarded, once true, never becomes false again.
C3_RewardedNeverReset ==
    [][\A p \in Pairs :
            (ledger[p] # <<>> /\ ledger[p][1].givingMemberRewarded)
                => (ledger'[p] # <<>> /\ ledger'[p][1].givingMemberRewarded)]_vars

\* C4: when the ledger lookup returns an existing row, rewarded or not, the
\* run skips the item: no Reward Issuer call, no ledger write, and the item
\* is counted as skipped.
C4_ExistingRowSkipped ==
    \A r \in Runs :
        log[r].lookup = "hit"
            => /\ log[r].issued = 0
               /\ log[r].wrote = 0
               /\ log[r].counted
               /\ pc[r] \in {"loop", "summary"}

\* A qualified item is skipped on a row that is not rewarded.
C4_Witness ==
    \E r \in Runs :
        /\ Matched(r)
        /\ log[r].lookup = "hit"
        /\ referral[r].receivingMemberVisits >= 1
        /\ ledger[PairOf(referral[r])] # <<>>
        /\ ~Row(PairOf(referral[r])).givingMemberRewarded
        /\ skippedCount[r] >= 1

\* C5: a run on the upstream data a completed run has already processed,
\* started after that run, leaves the ledger as that run left it and makes no
\* Reward Issuer call (checked under SpecRerun).
C5_RerunChangesNothing ==
    \A r \in Runs : \A o \in baseline[r].after :
        customers[r] = customers[o]
            => /\ ledger = baseline[r].ledger
               /\ log[r].issued = 0
               /\ log[r].wrote = 0

\* The second run has gone through the whole report, skipping a pair the
\* first run left a row for.
C5_Witness ==
    \E r \in Runs : \E o \in baseline[r].after :
        /\ customers[r] = customers[o]
        /\ pc[r] = "summary"
        /\ skippedCount[r] >= 1
        /\ \E p \in Pairs : ledger[p] # <<>> /\ Row(p).givingMemberRewarded

\* C6: for an item whose receiving member is a candidate, no Reward Issuer
\* call is made when its visits are 0 or missing, and exactly one is made when
\* its visits are at least 1 and the lookup finds no row.
C6_QualificationThreshold ==
    \A r \in Runs :
        Matched(r) =>
            /\ referral[r].receivingMemberVisits \in {Undefined, 0}
                    => log[r].issued = 0
            /\ (referral[r].receivingMemberVisits >= 1 /\ log[r].lookup = "miss")
                    => log[r].issued = IF pc[r] = "reward" THEN 0 ELSE 1

\* An item with one visit and no ledger row has been passed to the Issuer.
C6_Witness ==
    \E r \in Runs :
        /\ Matched(r)
        /\ referral[r].receivingMemberVisits = 1
        /\ log[r].lookup = "miss"
        /\ log[r].issued = 1

\* C7: an item whose receiving member is no candidate causes no ledger
\* lookup, no ledger write and no Reward Issuer call, and the step that takes
\* it leaves the ledger and the grants unchanged.
C7_UnmatchedIgnored ==
    /\ [](\A r \in Runs :
            (referral[r] # NoReferral /\ referral[r].receivingMemberId \notin customers[r])
                => log[r] = Fresh /\ pc[r] \in {"loop", "summary"})
    /\ [][\A r \in Runs :
            (/\ processedCount'[r] = processedCount[r] + 1
             /\ referral'[r].receivingMemberId \notin customers[r])
                => ledger' = ledger /\ granted' = granted]_vars

\* An unmatched item has been passed over while the ledger held a row.
C7_Witness ==
    \E r \in Runs :
        /\ referral[r] # NoReferral
        /\ referral[r].receivingMemberId \notin customers[r]
        /\ processedCount[r] = 2
        /\ \E p \in Pairs : ledger[p] # <<>>

\* C8: a matched item with receivingMemberVisits = 0 and no ledger row is
\* recorded with processing_status not_qualified and givingMemberRewarded
\* false (no other run taking part).
C8_UnqualifiedRecorded ==
    \A r \in Runs :
        (/\ Matched(r)
         /\ referral[r].receivingMemberVisits = 0
         /\ log[r].lookup = "miss"
         /\ log[r].path = "insert"
         /\ \A o \in Runs \ {r} : pc[o] = "idle")
            => /\ Row(PairOf(referral[r])).processing_status = "not_qualified"
               /\ ~Row(PairOf(referral[r])).givingMemberRewarded

\* Every status query of the budget reported pending.
AllPending(r) ==
    /\ Len(pollLog[r]) = POLL_MAX_ATTEMPTS
    /\ \A i \in 1..Len(pollLog[r]) : pollLog[r][i] = "pending"

\* C9: when every status query of the budget reports pending, the poll ends
\* in the timeout error without items, and the run that threw does nothing
\* more: no item handled, no ledger write, no Reward Issuer call.
C9_PendingTimesOut ==
    /\ [](\A r \in Runs :
            AllPending(r)
                => /\ pc[r] = "throw"
                   /\ abortError[r] = "Referral report polling timeout"
                   /\ reportLen[r] = 0
                   /\ processedCount[r] = 0
                   /\ log[r] = Fresh)
    /\ [][\A r \in Runs :
            /\ pc[r] = "throw" =>
                    /\ pc'[r] \in {"throw", "aborted"}
                    /\ pc'[r] = "aborted" => ledger' = ledger /\ granted' = granted
            /\ pc[r] = "aborted" => pc'[r] = "aborted"]_vars

C9_Witness == \E r \in Runs : AllPending(r) /\ pc[r] = "throw"

\* C10: once a status query has reported failed, the poll has ended in an
\* error: no further status query, no items.
C10_FailedIsTerminal ==
    \A r \in Runs :
        (\E i \in 1..Len(pollLog[r]) : pollLog[r][i] = "failed") => pc[r] = "throw"

\* ---- claims about single calls (checked under SpecCalls)

\* C11: for a completed report response the extracted items are those under
\* reportData.items when the body carries them (whether or not it carries
\* top-level items too), else those under top-level items, else the empty
\* sequence; so the same items are extracted from either place.
C11_ItemsFromEitherPlace ==
    (call.fn = "pollReferralReport" /\ call.outcome = "returned") =>
        LET resp == call.response
            hasNested == resp.reportData /\ resp.nested.present
        IN /\ hasNested => call.items = resp.nested.value
           /\ (~hasNested /\ resp.items.present) => call.items = resp.items.value
           /\ (~hasNested /\ ~resp.items.present) => call.items = <<>>

\* Both places carry items, different ones, and the nested ones came out.
C11_Witness ==
    /\ call.fn = "pollReferralReport"
    /\ call.outcome = "returned"
    /\ call.response.reportData
    /\ call.response.nested.present
    /\ call.response.items.present
    /\ call.response.nested.value # call.response.items.value
    /\ call.items = call.response.nested.value
    /\ call.items # <<>>

RECURSIVE SumSeq(_)
SumSeq(q) == IF q = <<>> THEN 0 ELSE q[1] + SumSeq(Tail(q))

\* min(INITIAL_RETRY_DELAY * 2^(k-1), MAX_RETRY_DELAY), written out.
BackoffTerm(k) ==
    IF INITIAL_RETRY_DELAY * 2 ^ (k - 1) <= MAX_RETRY_DELAY
    THEN INITIAL_RETRY_DELAY * 2 ^ (k - 1)
    ELSE MAX_RETRY_DELAY

\* C12: the wait after the k-th failed attempt (k < MAX_RETRIES) is
\* min(INITIAL_RETRY_DELAY * 2^(k-1), MAX_RETRY_DELAY); a call whose
\* MAX_RETRIES attempts all fail has waited the sum of these terms for
\* k = 1..MAX_RETRIES-1, nothing after its last attempt, and raises only
\* after that last attempt has failed.
C12_BackoffWaits ==
    /\ \A k \in 1..MaxDelayAttempt : delayTime(k) = BackoffTerm(k)
    /\ call.fn = "sendRequestWithRetry" =>
            /\ Len(call.waits) <= MAX_RETRIES - 1
            /\ \A k \in 1..Len(call.waits) : call.waits[k] = BackoffTerm(k)
            /\ call.outcome = "running" => Len(call.waits) = call.attempt - 1
            /\ call.outcome = "raised" =>
                    /\ call.attempt = MAX_RETRIES
                    /\ Len(call.waits) = MAX_RETRIES - 1
                    /\ SumSeq(call.waits) =
                            SumSeq([k \in 1..(MAX_RETRIES - 1) |-> BackoffTerm(k)])
                    /\ \A k \in 1..MAX_RETRIES :
                            call.responses[k] = 0 \/ call.responses[k] >= 400

\* Every permitted attempt failed: the call raised after waiting 1000 ms and
\* then 2000 ms.
C12_Witness ==
    /\ call.fn = "sendRequestWithRetry"
    /\ call.outcome = "raised"
    /\ call.waits = <<1000, 2000>>
    /\ SumSeq(call.waits) = 3000

\* C13: sendRequestWithRetry counts a status >= 400 (4xx and 5xx) and a
\* missing response (timeout, connection error) as a failed attempt, makes
\* at most MAX_RETRIES attempts, returns the payload of the first attempt
\* that succeeds and stops there, and raises the error of the last attempt
\* exactly when all MAX_RETRIES attempts failed.
C13_RetryOutcome ==
    call.fn = "sendRequestWithRetry" =>
        LET failed(k) == call.responses[k] = 0 \/ call.responses[k] >= 400
        IN /\ call.attempt \in 1..MAX_RETRIES
           /\ \A k \in 1..(call.attempt - 1) : failed(k)
           /\ call.outcome = "returned"
                => ~failed(call.attempt) /\ call.value = call.attempt
           /\ call.outcome = "raised"
                => /\ \A k \in 1..MAX_RETRIES : failed(k)
                   /\ call.attempt = MAX_RETRIES
                   /\ call.value = call.responses[MAX_RETRIES]
           /\ (call.outcome # "running" /\ \A k \in 1..MAX_RETRIES : failed(k))
                => call.outcome = "raised"
           /\ call.outcome # "running"
                => sendRequestWithRetry(call.responses) =
                      [ok |-> call.outcome = "returned", attempts |-> call.attempt]

\* A 4xx, then a timeout, then a success: the third payload is returned.
C13_Witness ==
    /\ call.fn = "sendRequestWithRetry"
    /\ call.outcome = "returned"
    /\ call.responses = <<404, 0, 200>>
    /\ call.value = 3

\* C14: the same commit applied twice in a row leaves the ledger as the first
\* application left it: one row for the pair, with the commit's
\* givingMemberRewarded, visits and spend; the second application takes the
\* update path.
C14_CommitIdempotent ==
    (call.fn = "updateSupabaseRecord" /\ Len(call.results) = 2) =>
        LET d == call.referralData
            rows == call.ledger[CommitPair]
        IN /\ call.results[2].ledger = call.results[1].ledger
           /\ call.results[2].ok
           /\ call.results[2].path = "update"
           /\ Len(rows) = 1
           /\ rows[1].givingMemberRewarded = d.givingMemberRewarded
           /\ rows[1].receivingMemberVisits = d.receivingMemberVisits
           /\ rows[1].receivingMemberTotalSpend =
                    (IF d.receivingMemberTotalSpend \in {Undefined, 0}
                     THEN 0 ELSE d.receivingMemberTotalSpend)

\* A commit of a rewarded pair inserted the row, and was applied again.
C14_Witness ==
    /\ call.fn = "updateSupabaseRecord"
    /\ Len(call.results) = 2
    /\ call.results[1].path = "insert"
    /\ call.referralData.givingMemberRewarded
    /\ call.referralData.receivingMemberVisits = 2

\* C15: fetchCustomersWithOneVisit requests pages 0, 1, 2, ... in order,
\* stops at the first page that is empty or whose fetch fails, and returns
\* the concatenation, in order, of the pages before it.
C15_PagesUntilStop ==
    call.fn = "fetchCustomersWithOneVisit" =>
        LET stops(n) == n = call.failAt \/ PayloadOf(call.served, n) = <<>>
        IN /\ \A i \in 1..Len(call.requested) : call.requested[i] = i - 1
           /\ \A n \in 0..(call.page - 1) : ~stops(n)
           /\ call.customers = ConcatPages(call.served, call.page)
           /\ call.hasMoreData => Len(call.requested) = call.page
           /\ ~call.hasMoreData =>
                /\ stops(call.page)
                /\ Len(call.requested) = call.page + 1
                /\ (\A i \in 1..Len(call.served) : call.served[i] # <<>>)
                      => call.customers =
                            fetchCustomersWithOneVisit(call.served, call.failAt + 1)

\* The fetch of page 2 failed while the endpoint had a page to serve: pages
\* 0 and 1 came back, in order.
C15_Witness ==
    /\ call.fn = "fetchCustomersWithOneVisit"
    /\ ~call.hasMoreData
    /\ call.failAt = 2
    /\ call.served = << <<103>>, <<102, 103>>, <<102>> >>
    /\ call.customers = <<103, 102, 103>>

\* ---- claims about whole runs

\* C16: rewardGivingMember does not raise: the run goes on to the commit,
\* with rewardSuccess true exactly when the executor call succeeded (a reward
\* was granted); the row the commit stores carries givingMemberRewarded equal
\* to rewardSuccess, which is false when the issuance failed or was not
\* attempted; after the commit the run goes on to the next record.
C16_RewardOutcomeRecorded ==
    /\ [](\A r \in Runs :
            (pc[r] = "commit" /\ log[r].issued = 0) => ~rewardSuccess[r])
    /\ [][\A r \in Runs :
            LET p == PairOf(referral[r])
            IN /\ (pc[r] = "reward" /\ pc'[r] # "reward")
                    => /\ pc'[r] = "commit"
                       /\ abortError'[r] = ""
                       /\ granted[p] < MaxGrants
                            => (rewardSuccess'[r] <=> granted'[p] = granted[p] + 1)
                       /\ ~rewardSuccess'[r] => granted'[p] = granted[p]
               /\ (pc[r] = "commit" /\ pc'[r] # "commit")
                    => /\ pc'[r] \in {"loop", "summary"}
                       /\ abortError'[r] = ""
                       /\ log'[r].path \in {"insert", "update"}
                            => /\ ledger'[p] # <<>>
                               /\ ledger'[p][1].givingMemberRewarded = rewardSuccess[r]]_vars

\* An issuance failed, its row was stored as not rewarded, and the run is at
\* the next record.
C16_Witness ==
    \E r \in Runs :
        /\ Matched(r)
        /\ pc[r] = "loop"
        /\ log[r].issued = 1
        /\ ~rewardSuccess[r]
        /\ log[r].path = "insert"
        /\ granted[PairOf(referral[r])] = 0
        /\ ~Row(PairOf(referral[r])).givingMemberRewarded

C18_OneItemAtATime ==
    /\ [](\A r \in Runs :
            /\ referral[r] # NoReferral
                    => /\ processedCount[r] \in 1..Len(world.items)
                       /\ referral[r] = world.items[processedCount[r]]
            /\ log[r].issued <= 1 /\ log[r].wrote <= 1
            /\ log[r].issued = 1 => log[r].lookup # "none"
            /\ log[r].wrote = 1 => log[r].lookup # "none" /\ pc[r] \notin {"reward", "commit"}
            /\ pc[r] = "reward" => log[r].issued = 0
            /\ (pc[r] \in {"loop", "summary"} /\ Matched(r))
                    => log[r].counted \/ log[r].wrote = 1)
    /\ [][\A r \in Runs :
            /\ processedCount'[r] > processedCount[r]
                    => pc[r] = "loop" /\ processedCount'[r] = processedCount[r] + 1
            /\ log'[r].issued > log[r].issued
                    => log[r].lookup # "none" /\ log[r].wrote = 0
            /\ log'[r].wrote > log[r].wrote
                    => pc[r] = "commit" /\ log[r].lookup # "none"]_vars

\* The second of two different items is at its commit, after its Issuer call.
C18_Witness ==
    \E r \in Runs :
        /\ Len(world.items) = 2
        /\ world.items[1] # world.items[2]
        /\ processedCount[r] = 2
        /\ pc[r] = "commit"
        /\ log[r].issued = 1

\* C19: when the ledger lookup fails, the pair is taken as fresh: the item
\* is not skipped, and if it is qualified the Reward Issuer is called,
\* whatever the ledger holds for the pair.
C19_FailedLookupIsFresh ==
    \A r \in Runs :
        (Matched(r) /\ log[r].lookup = "error")
            => /\ ~log[r].counted
               /\ referral[r].receivingMemberVisits >= 1
                    => (pc[r] = "reward" /\ log[r].issued = 0) \/ log[r].issued = 1
               /\ referral[r].receivingMemberVisits \in {Undefined, 0}
                    => log[r].issued = 0 /\ (pc[r] = "commit" \/ log[r].wrote = 1)

\* The Issuer has been called after a failed lookup while the ledger held a
\* rewarded row for the pair (stored earlier in the same run).
C19_Witness ==
    \E r \in Runs :
        /\ \A o \in Runs \ {r} : pc[o] = "idle"
        /\ Matched(r)
        /\ log[r].lookup = "error"
        /\ log[r].issued = 1
        /\ pc[r] = "commit"
        /\ ledger[PairOf(referral[r])] # <<>>
        /\ Row(PairOf(referral[r])).givingMemberRewarded

\* C20: a failed commit ends nothing and is not repeated: the ledger is left
\* as it was, the run goes on to the next record without an error, and the
\* reward, if granted, is counted.
C20_FailedCommitNotFatal ==
    /\ [](\A r \in Runs :
            log[r].path = "error"
                => log[r].wrote = 1 /\ pc[r] \in {"loop", "summary"})
    /\ [][\A r \in Runs :
            (pc[r] = "commit" /\ pc'[r] # "commit" /\ log'[r].path = "error")
                => /\ ledger' = ledger
                   /\ pc'[r] \in {"loop", "summary"}
                   /\ abortError'[r] = ""
                   /\ rewardedCount'[r] =
                        rewardedCount[r] + (IF rewardSuccess[r] THEN 1 ELSE 0)]_vars

\* In a single run a reward was granted but its commit failed, and a later
\* record of the same pair, its lookup finding no row, was rewarded again.
C20_Witness ==
    \E r \in Runs :
        /\ \A o \in Runs \ {r} : pc[o] = "idle"
        /\ Matched(r)
        /\ log[r].lookup = "miss"
        /\ log[r].issued = 1
        /\ rewardSuccess[r]
        /\ rewardedCount[r] = 1
        /\ granted[PairOf(referral[r])] = 2
        /\ ledger[PairOf(referral[r])] = <<>>

\* C21: a run-fatal condition ends the run with a failure: a missing
\* configuration variable before the run has sent any request, a failed
\* report initiation or a poll that ended in an error before any ledger
\* lookup, ledger write or Reward Issuer call.
C21_FatalAbortsRun ==
    /\ [](\A r \in Runs :
            /\ pc[r] \in {"throw", "aborted"} <=> abortError[r] # ""
            /\ pc[r] = "throw"
                    => /\ processedCount[r] = 0
                       /\ log[r] = Fresh
            /\ abortError[r] = "Missing required environment variables"
                    => customers[r] = {} /\ pollLog[r] = <<>>)
    /\ [][\A r \in Runs :
            /\ (abortError'[r] # "" /\ abortError[r] = "")
                    => pc[r] \in {"idle", "fetching", "polling"} /\ pc'[r] = "throw"
            /\ (abortError'[r] = "Missing required environment variables"
                    /\ abortError[r] = "")
                    => pc[r] = "idle"
            /\ (pc[r] = "throw" /\ pc'[r] # "throw")
                    => /\ pc'[r] = "aborted"
                       /\ ledger' = ledger
                       /\ granted' = granted
            /\ pc[r] = "aborted" => pc'[r] = "aborted"]_vars

\* One run has ended on a missing variable, the other on its last status
\* query reporting failed; the ledger is empty and nothing was granted.
C21_Witness ==
    \E r1, r2 \in Runs :
        /\ pc[r1] = "aborted"
        /\ abortError[r1] = "Missing required environment variables"
        /\ pc[r2] = "aborted"
        /\ abortError[r2] = "Referral report failed on server"
        /\ \A p \in Pairs : ledger[p] = <<>> /\ granted[p] = 0

\* C22: a run that ends without a run-fatal error has emitted the run
\* summary (lines 614-622) before it ends, an early end for want of
\* candidates or of report items included.
C22_SummaryAlwaysEmitted ==
    [][\A r \in Runs :
            (pc'[r] = "done" /\ pc[r] # "done") => pc[r] = "summary"]_vars

\* No other run is in flight.
Alone(r) == \A o \in Runs \ {r} : pc[o] = "idle" \/ Ended(o)

\* C23 as stated: when a run sights a pair whose row exists with
\* givingMemberRewarded false, the row's visits and spend are refreshed to
\* those of the sighting and its status follows, the reward flag stays as it
\* is, and no row is ever deleted.
C23_RowRefreshedOnSighting ==
    /\ [](\A r \in Runs :
            (/\ Alone(r)
             /\ Matched(r)
             /\ log[r].lookup = "hit"
             /\ pc[r] \in {"loop", "summary"}
             /\ ~Row(PairOf(referral[r])).givingMemberRewarded
             /\ referral[r].receivingMemberVisits >= 1)
                => /\ Row(PairOf(referral[r])).receivingMemberVisits =
                            referral[r].receivingMemberVisits
                   /\ Row(PairOf(referral[r])).receivingMemberTotalSpend =
                            referral[r].receivingMemberTotalSpend
                   /\ Row(PairOf(referral[r])).processing_status = "qualified")
    /\ [][\A p \in Pairs : Len(ledger'[p]) >= Len(ledger[p])]_vars

\* C23 amended: when a run sights a pair whose row exists (rewarded or
\* not) and the lookup returns it, the run skips the item and leaves the
\* ledger as it is: no field of the row is refreshed, the reward flag is not
\* touched; and no row is ever deleted.
C23_RowLeftOnSighting ==
    /\ [](\A r \in Runs :
            log[r].lookup = "hit"
                => log[r].wrote = 0 /\ log[r].path = "" /\ pc[r] \in {"loop", "summary"})
    /\ [][\A r \in Runs :
            (processedCount'[r] = processedCount[r] + 1 /\ log'[r].lookup = "hit")
                => ledger' = ledger /\ granted' = granted]_vars
    /\ [][\A p \in Pairs : Len(ledger'[p]) >= Len(ledger[p])]_vars

\* A run on its own has skipped a sighting with two visits and a spend of 5
\* of a pair whose unrewarded row still shows one visit and no spend.
C23_Witness ==
    \E r \in Runs :
        /\ Alone(r)
        /\ Matched(r)
        /\ log[r].lookup = "hit"
        /\ skippedCount[r] >= 1
        /\ referral[r].receivingMemberVisits = 2
        /\ referral[r].receivingMemberTotalSpend = 5
        /\ ~Row(PairOf(referral[r])).givingMemberRewarded
        /\ Row(PairOf(referral[r])).receivingMemberVisits = 1
        /\ Row(PairOf(referral[r])).receivingMemberTotalSpend = 0

\* C24: when two runs have both found no row for the same pair and both
\* their commits have been stored, one commit was the insert and the other
\* took the update path, and the pair has one row (both runs may have called
\* the Reward Issuer in between).
C24_OverlapOneInsertWins ==
    \A r1, r2 \in Runs :
        (/\ r1 # r2
         /\ Matched(r1) /\ Matched(r2)
         /\ PairOf(referral[r1]) = PairOf(referral[r2])
         /\ log[r1].lookup = "miss" /\ log[r2].lookup = "miss"
         /\ log[r1].path \in {"insert", "update"}
         /\ log[r2].path \in {"insert", "update"})
            => /\ log[r1].path # log[r2].path
               /\ Len(ledger[PairOf(referral[r1])]) = 1

\* Both runs passed the lookup of a qualified pair before either committed,
\* both were granted the reward, and their commits left one row.
C24_Witness ==
    \E r1, r2 \in Runs :
        /\ r1 # r2
        /\ Matched(r1) /\ Matched(r2)
        /\ PairOf(referral[r1]) = PairOf(referral[r2])
        /\ referral[r1].receivingMemberVisits >= 1
        /\ referral[r2].receivingMemberVisits >= 1
        /\ log[r1].lookup = "miss" /\ log[r2].lookup = "miss"
        /\ log[r1].issued = 1 /\ log[r2].issued = 1
        /\ rewardSuccess[r1] /\ rewardSuccess[r2]
        /\ granted[PairOf(referral[r1])] = 2
        /\ log[r1].path = "insert" /\ log[r2].path = "update"
        /\ Len(ledger[PairOf(referral[r1])]) = 1

\* C26: a run makes no ledger lookup, Issuer call or commit before the
\* collector has returned candidates and the report controller has returned
\* the items of the completed report: the record loop is entered only from
\* the polling loop, on a completed report, with the candidates in hand.
C26_JoinedBeforeReconciliation ==
    /\ [](\A r \in Runs :
            /\ pc[r] \in {"loop", "reward", "commit", "summary"}
                    => /\ customers[r] # {}
                       /\ reportLen[r] >= 1
                       /\ pollLog[r] = <<>>
                       /\ abortError[r] = ""
            /\ pc[r] \in {"idle", "fetching", "polling", "noop", "throw", "aborted"}
                    => /\ log[r] = Fresh
                       /\ processedCount[r] = 0)
    /\ [][\A r \in Runs :
            /\ (pc'[r] = "loop" /\ pc[r] \notin {"loop", "reward", "commit"})
                    => /\ pc[r] = "polling"
                       /\ customers[r] # {}
                       /\ reportLen'[r] >= 1
            /\ (log'[r] # log[r] /\ log'[r] # Fresh)
                    => pc[r] \in {"loop", "reward", "commit"}]_vars
    /\ [][(ledger' # ledger \/ granted' # granted)
            => \E r \in Runs :
                    /\ pc[r] \in {"reward", "commit"}
                    /\ pc'[r] # pc[r]
                    /\ customers[r] # {}
                    /\ reportLen[r] >= 1]_vars

\* A run has looked a pair up, been granted the reward and committed it,
\* after a polling loop that returned two items.
C26_Witness ==
    \E r \in Runs :
        /\ pc[r] = "loop"
        /\ reportLen[r] = 2
        /\ processedCount[r] = 1
        /\ log[r].lookup = "miss"
        /\ log[r].issued = 1
        /\ log[r].wrote = 1
        /\ customers[r] # {}

\* ---- claims about single calls, continued (checked under SpecCalls)

\* C27: the polling loop makes at most POLL_MAX_ATTEMPTS status queries, one
\* more at each turn; it returns exactly when a query within the budget
\* reports completed, at the first such; it raises otherwise, and only at the
\* last attempt: an error of the executor at an earlier attempt is followed
\* by the next query.
C27_PollTerminates ==
    /\ [](call.fn = "pollReferralReport loop" =>
            LET completedAt == {i \in 1..POLL_MAX_ATTEMPTS : call.statuses[i] = "completed"}
            IN /\ call.attempt + 1 <= POLL_MAX_ATTEMPTS
               /\ \A i \in 1..call.attempt : call.statuses[i] # "completed"
               /\ call.outcome = "running" => ENABLED PollQuery
               /\ call.outcome = "returned" =>
                        /\ call.attempt + 1 \in completedAt
                        /\ \A i \in completedAt : call.attempt + 1 <= i
               /\ call.outcome = "raised" =>
                        /\ completedAt = {}
                        /\ call.attempt + 1 = POLL_MAX_ATTEMPTS
                        /\ call.error # ""
                        /\ call.statuses[POLL_MAX_ATTEMPTS] = "error"
                                <=> call.error = "HTTP error")
    /\ [][call.fn = "pollReferralReport loop" =>
            /\ call.outcome = "running"
            /\ \/ call'.outcome = "running" /\ call'.attempt = call.attempt + 1
               \/ call'.outcome # "running" /\ call'.attempt = call.attempt]_vars

\* The executor failed at the first two queries and the third reported
\* completed: the loop returned.
C27_Witness ==
    /\ call.fn = "pollReferralReport loop"
    /\ call.statuses = <<"error", "error", "completed">>
    /\ call.outcome = "returned"
    /\ call.attempt = 2

\* ---- claims about runs, continued

\* C28: in one run, a record whose pair an earlier record of the report
\* carried (the store answering every call) finds the row the earlier record
\* left: it is counted as skipped, and neither the Issuer nor the ledger is
\* called for it; with at most one Issuer call per record, the pair gets at
\* most one in the run (checked under SpecRerun).
C28_DuplicateInRunSkipped ==
    /\ [](\A r \in Runs :
            /\ log[r].issued <= 1
            /\ (/\ pc[r] \in {"loop", "reward", "commit", "summary"}
                /\ Matched(r)
                /\ \E i \in 1..(processedCount[r] - 1) :
                        PairOf(world.items[i]) = PairOf(world.items[processedCount[r]]))
                    => /\ pc[r] \in {"loop", "summary"}
                       /\ log[r].lookup = "hit"
                       /\ log[r].issued = 0
                       /\ log[r].wrote = 0)
    /\ [][\A r \in Runs :
            (/\ pc[r] = "loop"
             /\ processedCount'[r] = processedCount[r] + 1
             /\ world.items[processedCount'[r]].receivingMemberId \in customers[r]
             /\ \E i \in 1..processedCount[r] :
                    PairOf(world.items[i]) = PairOf(world.items[processedCount'[r]]))
                => /\ skippedCount'[r] = skippedCount[r] + 1
                   /\ rewardedCount'[r] = rewardedCount[r]
                   /\ granted' = granted
                   /\ ledger' = ledger]_vars

\* The first run over a report of two qualified records of one pair: the
\* first was rewarded and stored, the second skipped.
C28_Witness ==
    \E r \in Runs :
        /\ pc[r] = "summary"
        /\ Len(world.items) = 2
        /\ PairOf(world.items[1]) = PairOf(world.items[2])
        /\ world.items[1].receivingMemberVisits = 2
        /\ world.items[2].receivingMemberVisits = 2
        /\ Matched(r)
        /\ processedCount[r] = 2
        /\ rewardedCount[r] = 1
        /\ skippedCount[r] = 1
        /\ log[r].lookup = "hit"
        /\ granted[PairOf(world.items[1])] = 1
        /\ Len(ledger[PairOf(world.items[1])]) = 1

C30_PollAfterJoin ==
    /\ [](\A r \in Runs :
            /\ pc[r] = "polling" \/ pollLog[r] # <<>> => customers[r] # {}
            /\ pc[r] = "fetching" => pollLog[r] = <<>> /\ customers[r] = {})
    /\ [][\A r \in Runs :
            /\ (pc'[r] = "polling" /\ pc[r] # "polling") => pc[r] = "fetching"
            /\ (pollLog'[r] # pollLog[r] /\ pollLog'[r] # <<>>) => pc[r] = "polling"
            /\ (pc[r] = "fetching" /\ pc'[r] = "noop")
                    => customers'[r] = {} /\ abortError'[r] = ""
            /\ (pc[r] = "noop" /\ customers[r] = {})
                    => pc'[r] \in {"noop", "done"} /\ pollLog'[r] = <<>>]_vars

\* One run ended on no candidates, unpolled; another is polling, its first
\* status query answered.
C30_Witness ==
    \E r1, r2 \in Runs :
        /\ pc[r1] = "done"
        /\ customers[r1] = {}
        /\ abortError[r1] = ""
        /\ pc[r2] = "polling"
        /\ Len(pollLog[r2]) = 1
        /\ customers[r2] # {}

\* ---- claims about requests (checked under SpecRequests)

\* C25: every transmission of one logical call (a report initiation, a
\* reward issuance) carries the same idempotence key, two different logical
\* calls (of different records or of different runs) carry different keys,
\* and a run makes one report initiation.
C25_OneKeyPerLogicalCall ==
    /\ \A a, b \in call.keys :
            (a.run = b.run /\ a.kind = b.kind /\ a.item = b.item) <=> a.key = b.key
    /\ \A r \in Runs :
            /\ call.initiations[r] <= 1
            /\ pc[r] \notin {"idle", "fetching", "throw", "aborted"}
                    => call.initiations[r] = 1
            /\ Cardinality({a \in call.keys : a.run = r /\ a.kind = "initiate"}) <= 1

\* The second run is at its commit after a reward request sent three times;
\* the first run had sent an initiation and a reward request too.
C25_Witness ==
    \E r1, r2 \in Runs :
        /\ r1 # r2
        /\ pc[r1] = "done"
        /\ pc[r2] = "commit"
        /\ call.options[r2].kind = "reward"
        /\ call.attempt[r2] = MAX_RETRIES
        /\ \E a \in call.keys : a.run = r1 /\ a.kind = "reward"
        /\ \E a \in call.keys : a.run = r1 /\ a.kind = "initiate"
        /\ \E a \in call.keys : a.run = r2 /\ a.kind = "initiate"
        /\ Cardinality(call.keys) >= 4

\* ---- claims about the scheduler (checked under SpecScheduler)

====
